---- MODULE Spec2Model ----
(***************************************************************************)
(* Model of smart-widget-builder: the component classes (Icon, Image,     *)
(* Input, Button), the component set validator and encoder, the SW        *)
(* facade (signEvent, publish) and the event collector (getSubData).      *)
(*                                                                         *)
(* JavaScript values are tagged records.  A string carries, besides its   *)
(* text, the three things the code ever asks of it: its length, the       *)
(* leading token that String.startsWith is tested against, and whether    *)
(* the e-mail regular expression matches it.  A number n is stored as     *)
(* 2*n (field twice), so that halves such as 1.5 are representable.       *)
(***************************************************************************)
EXTENDS Integers, Sequences, FiniteSets, TLC

VARIABLES
  \* ---- caller, component set, facade (lib.js) ----
  components,   \* the array object the caller builds and hands to SWComponentsSet
  set,          \* the SWComponentsSet instance (NoSet before construction)
  swType,       \* SW.type of the facade instance
  checkComps,   \* outcome of the last SWComponentsSet constructor call
  signed,       \* outcome of the last signEvent call
  button,       \* the last Button constructor call: arguments and outcome
  \* ---- event collector (getSubData) ----
  now,          \* the event loop's clock, in timer ticks
  cState,       \* "idle" | "collecting" | "resolved"
  cTimeout,     \* the timeout argument of the call
  events,       \* the events array of the call
  pubkeys,      \* the pubkeys array of the call
  cTimer,       \* the pending quiet-period timer (its due time) or NoTimer
  cSub,         \* "none" | "open" | "stopped"
  cResolved,    \* sequence of the values resolve() was called with
  delivered,    \* what the relay delivered to the subscription: <<event, time>>
  \* ---- SW.publish ----
  pPc,          \* "idle" | "signing" | "executor" | "waiting"
  pPromise,     \* the promise publish returned
  pTimer,       \* the pending publish timer (its due time) or NoTimer
  pSub,         \* "none" | "open" | "stopped"
  pEvent,       \* the signed event of the call
  pTimeout,     \* the timeout argument of the call
  pLog          \* what happened to the call, in order

setVars == <<components, set, swType, checkComps, signed>>
collectorVars == <<cState, cTimeout, events, pubkeys, cTimer, cSub, cResolved, delivered>>
publishVars == <<pPc, pPromise, pTimer, pSub, pEvent, pTimeout, pLog>>
vars == <<setVars, button, now, collectorVars, publishVars>>

----------------------------------------------------------------------------
(* JavaScript values *)

Undefined == [type |-> "undefined"]
Num(k2) == [type |-> "number", twice |-> k2]
Str(v, p, n, e) == [type |-> "string", val |-> v, pre |-> p, len |-> n, email |-> e]
Word(v, n) == Str(v, "", n, FALSE)

typeof(v) == v.type

\* !v for the values modelled
Falsy(v) ==
  CASE v.type = "undefined" -> TRUE
    [] v.type = "string" -> v.len = 0
    [] v.type = "number" -> v.twice = 0
    [] OTHER -> FALSE

startsWith(url, p) == url.pre = p

\* sample strings
S_empty == Word("", 0)
S_label == Word("Click Me", 8)
S_title == Word("My Widget", 9)
S_https == Str("https://x.com", "https://", 13, FALSE)
S_dataimg == Str("data:image/png;base64,AA", "data:image/", 24, FALSE)
S_ftp == Str("ftp://x.com", "ftp://", 11, FALSE)
S_nostr == Str("nostr:abc", "nostr:", 9, FALSE)
S_email == Str("alice@example.com", "", 17, TRUE)
S_lnbcShort == Str("lnbc1short", "lnbc", 10, FALSE)
S_lnbcLong == Str("lnbc1-forty-characters-long-invoice-text", "lnbc", 40, FALSE)

T_redirect == Word("redirect", 8)
T_nostr == Word("nostr", 5)
T_zap == Word("zap", 3)
T_post == Word("post", 4)
T_app == Word("app", 3)
T_link == Word("link", 4)

----------------------------------------------------------------------------
(* Field validators (helpers) *)

isTitleValid(title) ==
  IF typeof(title) # "string" THEN FALSE ELSE TRUE

\* url is a string here; type is a JS value (undefined when omitted)
isURLValid(url, type) ==
  IF (Falsy(type) \/ (type.type = "string" /\ type.val \in {"redirect", "post", "app"}))
     /\ ~(startsWith(url, "https://") \/ startsWith(url, "http://")
          \/ startsWith(url, "data:image/"))
  THEN [status |-> FALSE, msg |-> "Invalid URL"]
  ELSE IF type = T_nostr
          /\ ~(startsWith(url, "nostr:") \/ startsWith(url, "npub")
               \/ startsWith(url, "nprofile") \/ startsWith(url, "note1")
               \/ startsWith(url, "nevent") \/ startsWith(url, "naddr"))
  THEN [status |-> FALSE, msg |-> "Invalid nostr URL schema"]
  ELSE IF type = T_zap
          /\ ~(url.email
               \/ (startsWith(url, "lnurl") /\ url.len > 32)
               \/ (startsWith(url, "lnbc") /\ url.len > 32))
  THEN [status |-> FALSE, msg |-> "Invalid zap URL"]
  ELSE [status |-> TRUE, msg |-> ""]

----------------------------------------------------------------------------
(* Component classes.  A constructor call yields what it threw ("" when   *)
(* it returned) and the instance it produced (NoInst when it threw).      *)

NoInst == [kind |-> "none"]
Threw(m) == [threw |-> m, inst |-> NoInst]
Made(c) == [threw |-> "", inst |-> c]

\* url.startsWith on a non-string is a TypeError
NewIcon(url) ==
  IF typeof(url) # "string" THEN Threw("TypeError")
  ELSE LET checkURL == isURLValid(url, Undefined)
       IN IF ~checkURL.status THEN Threw(checkURL.msg)
          ELSE Made([kind |-> "Icon", url |-> url])

NewImage(url) ==
  IF typeof(url) # "string" THEN Threw("TypeError")
  ELSE LET checkURL == isURLValid(url, Undefined)
       IN IF ~checkURL.status THEN Threw(checkURL.msg)
          ELSE Made([kind |-> "Image", url |-> url])

NewInput(label) ==
  IF Falsy(label) \/ typeof(label) # "string" THEN Threw("Image url is required")
  ELSE Made([kind |-> "Input", label |-> label])

ButtonIndexRejected(index) == typeof(index) # "number" \/ index = Num(0)

NewButton(index, label, type, url) ==
  IF ButtonIndexRejected(index)
  THEN Threw("Button index must be an integer greater than 0")
  ELSE IF Falsy(label) \/ typeof(label) # "string"
  THEN Threw("Button label is required")
  ELSE IF ~(typeof(type) = "string"
            /\ type.val \in {"nostr", "zap", "redirect", "post", "app"})
  THEN Threw("Button type must be one these values (redirect | nostr | zap | post | app)")
  ELSE IF Falsy(url) \/ typeof(url) # "string"
  THEN Threw("Button url is required")
  ELSE LET checkURL == isURLValid(url, type)
       IN IF ~checkURL.status THEN Threw(checkURL.msg)
          ELSE Made([kind |-> "Button", index |-> index, label |-> label,
                     type |-> type, url |-> url])

\* a value that is an instance of none of the four classes
PlainObject == [kind |-> "Object"]

instanceof(comp, cls) == comp.kind = cls

----------------------------------------------------------------------------
(* Component set validator (helpers) *)

RECURSIVE Dedup(_)
\* [...new Set(arr)]: first occurrences, in order
Dedup(arr) ==
  IF arr = <<>> THEN <<>>
  ELSE LET front == Dedup(SubSeq(arr, 1, Len(arr) - 1))
           last == arr[Len(arr)]
       IN IF \E i \in 1..Len(front) : front[i] = last THEN front
          ELSE Append(front, last)

RECURSIVE InsertByKey(_, _)
\* x placed after every element whose key is <= its own (a stable insertion)
InsertByKey(sorted, x) ==
  IF sorted = <<>> THEN <<x>>
  ELSE IF sorted[Len(sorted)].key <= x.key THEN Append(sorted, x)
  ELSE Append(InsertByKey(SubSeq(sorted, 1, Len(sorted) - 1), x), sorted[Len(sorted)])

RECURSIVE SortByKey(_)
\* Array.prototype.sort((a, b) => a.key - b.key) over [key, item] pairs:
\* ascending and stable
SortByKey(arr) ==
  IF arr = <<>> THEN <<>>
  ELSE InsertByKey(SortByKey(SubSeq(arr, 1, Len(arr) - 1)), arr[Len(arr)])

\* arr.sort((a, b) => a - b) over numbers
SortNumbers(arr) ==
  LET keyed == SortByKey([i \in 1..Len(arr) |-> [key |-> arr[i].twice, item |-> arr[i]]])
  IN [i \in 1..Len(keyed) |-> keyed[i].item]


MaxButtons == 6

\* a mutation: the comparison of the deduplicated length with arr.length dropped
isConsecutiveArrayNoLength(arr) ==
  LET sorted == SortNumbers(Dedup(arr))
  IN IF Len(sorted) > MaxButtons THEN FALSE
     ELSE /\ sorted[1] = Num(2 * 1)
          /\ \A i \in 1..Len(sorted) : sorted[i] = Num(2 * i)

isConsecutiveArray(arr) ==
  LET sorted == SortNumbers(Dedup(arr))
  IN IF Len(sorted) > MaxButtons THEN FALSE
     ELSE /\ Len(sorted) = Len(arr)
          /\ sorted[1] = Num(2 * 1)
          /\ \A i \in 1..Len(sorted) : sorted[i] = Num(2 * i)

MsgEmpty == "The components array must be a non empty array"
MsgNotComponent == "One or more elements are not a smart widget components"
MsgNoImage == "An image component is required"
MsgManyImages == "The number of image components has exceeded the allowed limit (1 max)"
MsgNoIcon == "An icon component is required for smart widgets with (action | tools) types"
MsgManyIcons == "The number of icon components has exceeded the allowed limit (1 max)"
MsgAppOnly == "Only an image and a button of app type are required for smart widgets with (action | tools) types"
MsgManyInputs == "The number of input components has exceeded the allowed limit (1 max)"
MsgButtons == "The number of button components has either exceeded the allowed limit (6 max), or has a non consecutive indexes"

Invalid(m) == [status |-> FALSE, msg |-> m]
Valid == [status |-> TRUE, msg |-> ""]

OfClass(instance, cls) == SelectSeq(instance, LAMBDA comp : instanceof(comp, cls))

\* the index of every Button of the list, in list order
ButtonIndexes(instance) ==
  LET bs == OfClass(instance, "Button") IN [i \in 1..Len(bs) |-> bs[i].index]

ButtonTypes(instance) ==
  LET bs == OfClass(instance, "Button") IN {bs[i].type.val : i \in 1..Len(bs)}

\* a mutation: "tool" forgotten in the list of non-basic types
isDefaultTypeActionOnly(type) == ~(type \in {"action"})

\* let isDefault = !["action", "tool"].includes(type)
isDefaultType(type) == ~(type \in {"action", "tool"})

\* instance is an array (Array.isArray holds of every list modelled)
isSWComponentsSetValid(instance, type) ==
  IF Len(instance) = 0 THEN Invalid(MsgEmpty)
  ELSE
  LET isDefault == isDefaultType(type)
      icons == OfClass(instance, "Icon")
      images == OfClass(instance, "Image")
      inputs == OfClass(instance, "Input")
      buttons == ButtonIndexes(instance)
      buttonTypes == ButtonTypes(instance)
  IN IF \E i \in 1..Len(instance) :
          ~(\/ instanceof(instance[i], "Icon") \/ instanceof(instance[i], "Image")
            \/ instanceof(instance[i], "Button") \/ instanceof(instance[i], "Input"))
     THEN Invalid(MsgNotComponent)
     ELSE IF Len(images) = 0 THEN Invalid(MsgNoImage)
     ELSE IF Len(images) > 1 THEN Invalid(MsgManyImages)
     ELSE IF Len(icons) = 0 /\ ~isDefault THEN Invalid(MsgNoIcon)
     ELSE IF Len(icons) > 1 THEN Invalid(MsgManyIcons)
     ELSE IF ~isDefault /\ Len(inputs) > 0 /\ Len(buttons) > 1 /\ ~("app" \in buttonTypes)
     THEN Invalid(MsgAppOnly)
     ELSE IF Len(inputs) > 1 THEN Invalid(MsgManyInputs)
     ELSE IF Len(buttons) > 0 /\ ~isConsecutiveArray(buttons) THEN Invalid(MsgButtons)
     ELSE Valid

----------------------------------------------------------------------------
(* SWComponentsSet *)

NoSet == [constructed |-> FALSE]
NoCheck == [called |-> FALSE]

\* this.components = components: the instance keeps the caller's array itself,
\* so the field is a reference to the variable components
SetComponentsField(arrayRef) == arrayRef

Deref(ref) == IF ref = "components" THEN components ELSE <<>>

\* SWComponentsSet.getProps over the component list comps
IconAndImageTags(comps) ==
  LET both == SelectSeq(comps, LAMBDA comp : instanceof(comp, "Icon") \/ instanceof(comp, "Image"))
  IN [i \in 1..Len(both) |->
        IF instanceof(both[i], "Icon") THEN <<"icon", both[i].url.val>>
        ELSE <<"image", both[i].url.val>>]

InputTags(comps) ==
  LET ins == OfClass(comps, "Input")
  IN [i \in 1..Len(ins) |-> <<"input", ins[i].label.val>>]

\* a mutation: the buttons left in insertion order
ButtonTagsUnsorted(comps) ==
  LET bs == OfClass(comps, "Button")
  IN [i \in 1..Len(bs) |-> <<"button", bs[i].label.val, bs[i].type.val, bs[i].url.val>>]

\* buttons.sort((a, b) => a.index - b.index).map((_) => _.metadata)
ButtonTags(comps) ==
  LET bs == OfClass(comps, "Button")
      buttons == [i \in 1..Len(bs) |->
                    [key |-> bs[i].index.twice,
                     item |-> <<"button", bs[i].label.val, bs[i].type.val, bs[i].url.val>>]]
      sorted == SortByKey(buttons)
  IN [i \in 1..Len(sorted) |-> sorted[i].item]

getProps(comps) ==
  LET icons == <<>>
      images == IconAndImageTags(comps)
      inputs == InputTags(comps)
  IN icons \o images \o inputs \o ButtonTags(comps)

----------------------------------------------------------------------------
(* Event construction (helpers): getNostrEvent *)

KIND == 30033

\* identifier_ is a string; generated is what nanoid() returns when it is empty
getNostrEvent(content, tags, identifier_, type, generated) ==
  LET identifier == IF identifier_ # "" THEN identifier_ ELSE generated
      tags_ == <<<<"d", identifier>>, <<"l", type>>>> \o tags
  IN [event |-> [kind |-> KIND, content |-> content, tags |-> tags_, id |-> "id:" \o identifier],
      naddr |-> <<KIND, "pubkey", identifier>>]

NoEvent == [event |-> [kind |-> 0, content |-> "", tags |-> <<>>, id |-> ""], naddr |-> <<>>]

\* title || ""
ContentOf(title) == IF Falsy(title) THEN "" ELSE title.val

MsgTitle == "The title should be an empty or valid string"
MsgNotSet == "The components should be a SWComponentsSet instance"
MsgSignFailed == "raw: sign failed"
MsgHint == "Event could not be published, make sure to init() your smart widget instance or change your relays set"

----------------------------------------------------------------------------
(* Bounds and input sets *)

MaxFree == 3      \* longest array the caller builds from arbitrary components
MaxLen == 8       \* longest array, the tail being buttons pushed in index order
MaxTime == 5      \* the clock stops here
MaxEvents == 3    \* events a relay delivers to one subscription
MaxTimeout == 2   \* longest timeout argument, in ticks

WidgetTypes == {"basic", "action", "tool"}
Titles == {Undefined, S_empty, S_title, Num(84)}
Identifiers == {"", "my-widget"}
Generated == {"nanoid-1"}

Constructed(results) == {r.inst : r \in {x \in results : x.threw = ""}}

\* what the caller may push in the validator's specification; 3 is the number 1.5
ValidatorAlphabet ==
  Constructed({NewIcon(S_https), NewImage(S_https), NewInput(S_label)}
              \cup {NewButton(Num(i2), S_label, t, S_https) :
                      i2 \in {2, 3, 4}, t \in {T_redirect, T_app}})
  \cup {PlainObject}

\* what the caller may push in the component set's specification: the buttons
\* carry distinct labels, so that the order of their tags can be told
LabelOf == <<Word("first", 5), Word("second", 6), Word("third", 5)>>
SetAlphabet ==
  Constructed({NewIcon(S_https), NewImage(S_dataimg), NewInput(S_label)}
              \cup {NewButton(Num(2 * i), LabelOf[i], T_redirect, S_https) : i \in 1..3})

ButtonIndexArgs == {Undefined, Word("1", 1), Num(0), Num(-2), Num(3), Num(2), Num(4)}
ButtonLabelArgs == {Undefined, S_empty, S_label, Num(10)}
ButtonTypeArgs == {Undefined, T_redirect, T_nostr, T_zap, T_post, T_app, T_link}
ButtonUrlArgs == {Undefined, S_empty, S_https, S_ftp, S_nostr, S_email, S_lnbcShort, S_lnbcLong}

----------------------------------------------------------------------------
(* Idle values of each part *)

NoButtonCall == [called |-> FALSE, args |-> <<>>, threw |-> "", inst |-> NoInst]
NoSign == [called |-> FALSE, title |-> Undefined, threw |-> "", result |-> NoEvent,
           usedValid |-> TRUE]
\* a timer: pending or not, and when it is due
NoTimer == [pending |-> FALSE, due |-> 0]
Armed(due) == [pending |-> TRUE, due |-> due]
Pending == [state |-> "pending", event |-> NoEvent, reason |-> ""]

SetIdle ==
  /\ components = <<>> /\ set = NoSet /\ swType = "basic"
  /\ checkComps = NoCheck /\ signed = NoSign
CollectorIdle ==
  /\ cState = "idle" /\ cTimeout = 0 /\ events = <<>> /\ pubkeys = <<>>
  /\ cTimer = NoTimer /\ cSub = "none" /\ cResolved = <<>> /\ delivered = <<>>
PublishIdle ==
  /\ pPc = "idle" /\ pPromise = Pending /\ pTimer = NoTimer /\ pSub = "none"
  /\ pEvent = NoEvent /\ pTimeout = 0 /\ pLog = <<>>

----------------------------------------------------------------------------
(* Button construction *)

ButtonCall(index, label, type, url) ==
  /\ button' = [called |-> TRUE, args |-> <<index, label, type, url>>,
                threw |-> NewButton(index, label, type, url).threw,
                inst |-> NewButton(index, label, type, url).inst]
  /\ UNCHANGED <<setVars, now, collectorVars, publishVars>>

InitButton == button = NoButtonCall /\ now = 0 /\ SetIdle /\ CollectorIdle /\ PublishIdle

NextButton ==
  \E index \in ButtonIndexArgs, label \in ButtonLabelArgs,
     type \in ButtonTypeArgs, url \in ButtonUrlArgs :
    ButtonCall(index, label, type, url)

SpecButton == InitButton /\ [][NextButton]_vars

----------------------------------------------------------------------------
(* The caller's array and the component set *)

others == <<button, now, collectorVars, publishVars>>

\* components.push(c)
CallerPush(c) ==
  /\ Len(components) < MaxFree
  /\ components' = Append(components, c)
  /\ checkComps' = NoCheck /\ signed' = NoSign
  /\ UNCHANGED <<set, swType, others>>

\* components.push(new Button(k + 1, ...)), k the number of buttons already there
CallerPushNextButton ==
  /\ Len(components) < MaxLen
  /\ LET k == Len(OfClass(components, "Button"))
     IN components' = Append(components, NewButton(Num(2 * (k + 1)), S_label, T_redirect, S_https).inst)
  /\ checkComps' = NoCheck /\ signed' = NoSign
  /\ UNCHANGED <<set, swType, others>>

\* components.pop()
CallerPop ==
  /\ Len(components) > 0
  /\ components' = SubSeq(components, 1, Len(components) - 1)
  /\ checkComps' = NoCheck /\ signed' = NoSign
  /\ UNCHANGED <<set, swType, others>>

\* components[i] = c
CallerReplace(i, c) ==
  /\ i \in 1..Len(components)
  /\ Len(components) <= MaxFree
  /\ components[i] # c
  /\ components' = [components EXCEPT ![i] = c]
  /\ checkComps' = NoCheck /\ signed' = NoSign
  /\ UNCHANGED <<set, swType, others>>

\* new SWComponentsSet(components, smartWidgetInstance); withInstance says
\* whether the second argument is the SW instance
NewSWComponentsSet(withInstance) ==
  LET type == IF withInstance THEN swType ELSE "basic"
      check == isSWComponentsSetValid(components, type)
  IN /\ checkComps' = [called |-> TRUE, instance |-> components, type |-> type,
                       status |-> check.status, msg |-> check.msg]
     /\ set' = IF check.status
               THEN [constructed |-> TRUE, components |-> SetComponentsField("components")]
               ELSE set
     /\ UNCHANGED <<components, swType, signed, others>>

\* sw.signEvent(components, title, identifier); isSet says whether the first
\* argument is the SWComponentsSet instance, signs whether ndkEvent.sign() returns
signEvent(isSet, title, identifier, generated, signs) ==
  /\ isSet => set.constructed
  /\ signed' =
       IF ~isTitleValid(title)
       THEN [NoSign EXCEPT !.called = TRUE, !.title = title, !.threw = MsgTitle]
       ELSE IF ~isSet
       THEN [NoSign EXCEPT !.called = TRUE, !.title = title, !.threw = MsgNotSet]
       ELSE IF ~signs
       THEN [NoSign EXCEPT !.called = TRUE, !.title = title, !.threw = MsgSignFailed]
       ELSE [called |-> TRUE, title |-> title, threw |-> "",
             result |-> getNostrEvent(ContentOf(title), getProps(Deref(set.components)),
                                      identifier, swType, generated),
             usedValid |-> isSWComponentsSetValid(Deref(set.components), "basic").status]
  /\ UNCHANGED <<components, set, swType, checkComps, others>>

InitSet ==
  /\ components = <<>> /\ set = NoSet /\ swType \in WidgetTypes
  /\ checkComps = NoCheck /\ signed = NoSign
  /\ button = NoButtonCall /\ now = 0 /\ CollectorIdle /\ PublishIdle

NextValidator ==
  \/ \E c \in ValidatorAlphabet : CallerPush(c)
  \/ CallerPushNextButton
  \/ \E withInstance \in BOOLEAN : NewSWComponentsSet(withInstance)

SpecValidator == InitSet /\ [][NextValidator]_vars

NextSet ==
  \/ \E c \in SetAlphabet : CallerPush(c)
  \/ CallerPop
  \/ \E i \in 1..MaxFree, c \in SetAlphabet : CallerReplace(i, c)
  \/ \E withInstance \in BOOLEAN : NewSWComponentsSet(withInstance)
  \/ \E isSet \in BOOLEAN, title \in Titles, identifier \in Identifiers,
        generated \in Generated, signs \in BOOLEAN :
       signEvent(isSet, title, identifier, generated, signs)

SpecSet == InitSet /\ [][NextSet]_vars

----------------------------------------------------------------------------
(* The rules of the component set validator, as the specification states  *)
(* them (section 4.2), one predicate per rule.                            *)

CountOf(list, cls) == Cardinality({i \in 1..Len(list) : list[i].kind = cls})
NonBasic(type) == type \in {"action", "tool"}
IndexSet(list) == {list[i].index : i \in {j \in 1..Len(list) : list[j].kind = "Button"}}

RuleViolated(n, list, type) ==
  CASE n = 1 -> list = <<>>
    [] n = 2 -> \E i \in 1..Len(list) : list[i].kind \notin {"Icon", "Image", "Input", "Button"}
    [] n = 3 -> CountOf(list, "Image") # 1
    [] n = 4 -> \/ NonBasic(type) /\ CountOf(list, "Icon") = 0
                \/ CountOf(list, "Icon") > 1
    [] n = 5 -> /\ NonBasic(type)
                /\ CountOf(list, "Input") >= 1
                /\ CountOf(list, "Button") > 1
                /\ ~\E i \in 1..Len(list) : list[i].kind = "Button" /\ list[i].type = T_app
    [] n = 6 -> CountOf(list, "Input") > 1
    [] n = 7 -> /\ CountOf(list, "Button") >= 1
                /\ ~(/\ Cardinality(IndexSet(list)) <= 6
                     /\ IndexSet(list) = {Num(2 * j) : j \in 1..Cardinality(IndexSet(list))}
                     /\ Cardinality(IndexSet(list)) = CountOf(list, "Button"))

ViolatedRules(list, type) == {n \in 1..7 : RuleViolated(n, list, type)}
LowestViolated(list, type) ==
  CHOOSE n \in ViolatedRules(list, type) : \A m \in ViolatedRules(list, type) : n <= m

ReasonOfRule(n, list) ==
  CASE n = 1 -> MsgEmpty
    [] n = 2 -> MsgNotComponent
    [] n = 3 -> IF CountOf(list, "Image") = 0 THEN MsgNoImage ELSE MsgManyImages
    [] n = 4 -> IF CountOf(list, "Icon") = 0 THEN MsgNoIcon ELSE MsgManyIcons
    [] n = 5 -> MsgAppOnly
    [] n = 6 -> MsgManyInputs
    [] n = 7 -> MsgButtons

C4_ButtonIndexRule ==
  checkComps.called =>
    LET list == checkComps.instance
        k == CountOf(list, "Button")
    IN (k >= 1 /\ \A n \in 1..6 : ~RuleViolated(n, list, checkComps.type)) =>
         (checkComps.status <=>
            /\ k <= 6
            /\ \A j \in 1..k :
                 Cardinality({i \in 1..Len(list) :
                                list[i].kind = "Button" /\ list[i].index = Num(2 * j)}) = 1)

\* seven buttons indexed 1..7, each once, rejected only for being more than six
C4_Witness ==
  /\ checkComps.called /\ ~checkComps.status
  /\ CountOf(checkComps.instance, "Button") = 7
  /\ IndexSet(checkComps.instance) = {Num(2 * j) : j \in 1..7}
  /\ \A n \in 1..6 : ~RuleViolated(n, checkComps.instance, checkComps.type)

----------------------------------------------------------------------------
(* Component set encoder *)

ComponentTags(event) == SubSeq(event.tags, 3, Len(event.tags))

\* the tag list the specification (section 4.3) prescribes for a validated list:
\* icon and image in list order, the input, the buttons by index 1, 2, ..., k
PositionOf(list, cls) == CHOOSE i \in 1..Len(list) : list[i].kind = cls
ButtonWithIndex(list, j) ==
  list[CHOOSE i \in 1..Len(list) : list[i].kind = "Button" /\ list[i].index = Num(2 * j)]

CanonicalTags(list) ==
  LET image == <<"image", list[PositionOf(list, "Image")].url.val>>
      head == IF CountOf(list, "Icon") = 0 THEN <<image>>
              ELSE LET icon == <<"icon", list[PositionOf(list, "Icon")].url.val>>
                   IN IF PositionOf(list, "Icon") < PositionOf(list, "Image")
                      THEN <<icon, image>> ELSE <<image, icon>>
      input == IF CountOf(list, "Input") = 0 THEN <<>>
               ELSE <<<<"input", list[PositionOf(list, "Input")].label.val>>>>
      tail == [j \in 1..CountOf(list, "Button") |->
                 LET b == ButtonWithIndex(list, j)
                 IN <<"button", b.label.val, b.type.val, b.url.val>>]
  IN head \o input \o tail

\* C5: the tags encoded for a set whose components pass the validator are the icon
\* and image tags in list order, then the input tag, then the button tags in
\* strictly ascending index order, whatever the insertion order.
C5_EncoderOrder ==
  (signed.called /\ signed.threw = "" /\ signed.usedValid) =>
     ComponentTags(signed.result.event) = CanonicalTags(Deref(set.components))

\* buttons inserted out of index order, after an icon that follows the image
C5_Witness ==
  /\ signed.called /\ signed.threw = "" /\ signed.usedValid
  /\ Len(components) >= 3
  /\ components[1].kind = "Button" /\ components[1].index = Num(4)
  /\ \E i \in 2..Len(components) : components[i].kind = "Button" /\ components[i].index = Num(2)

----------------------------------------------------------------------------
(* Claims the code does not meet *)

\* C6: title validation passes for an undefined title and for every string and
\* fails for every other type; a call with the title omitted builds an event whose
\* content is the empty string.
C6_TitleOptional ==
  signed.called =>
    /\ (signed.threw = MsgTitle) <=> (signed.title.type \notin {"undefined", "string"})
    /\ (signed.title = Undefined /\ signed.threw = "") => signed.result.event.content = ""

\* the well-formedness of Button arguments, as the specification states it
UrlFitsType(url, type) ==
  CASE type.val \in {"redirect", "post", "app"} -> url.pre \in {"https://", "http://", "data:image/"}
    [] type.val = "nostr" -> url.pre \in {"nostr:", "npub", "nprofile", "note1", "nevent", "naddr"}
    [] type.val = "zap" -> url.email \/ (url.pre \in {"lnurl", "lnbc"} /\ url.len > 32)
    [] OTHER -> FALSE

WellFormedButtonArgs(index, label, type, url) ==
  /\ index.type = "number" /\ index.twice % 2 = 0 /\ index.twice >= 2
  /\ label.type = "string" /\ label.len > 0
  /\ type.type = "string" /\ type.val \in {"redirect", "nostr", "zap", "post", "app"}
  /\ url.type = "string" /\ UrlFitsType(url, type)

\* C7: a Button is constructed exactly when its index is an integer >= 1, its label
\* a non-empty string, its type one of the five and its url valid for the type;
\* every other call fails and yields no instance.
C7_ButtonWellFormed ==
  button.called =>
    /\ (button.threw = "") <=>
         WellFormedButtonArgs(button.args[1], button.args[2], button.args[3], button.args[4])
    /\ (button.threw # "") <=> (button.inst = NoInst)

\* C8: every signing of a constructed set uses a component list that satisfies the
\* validator's rules, whatever the caller did to the array since the construction.
C8_SetImmutable ==
  (signed.called /\ signed.threw = "") => signed.usedValid

TagsNamed(event, name) == {i \in 1..Len(event.tags) : event.tags[i][1] = name}

\* C10: an event signed by a widget of type action or tool carries exactly one
\* icon tag and exactly one image tag.
C10_NonBasicHasIconAndImage ==
  (signed.called /\ signed.threw = ""
     /\ \E i \in TagsNamed(signed.result.event, "l") :
          signed.result.event.tags[i][2] \in {"action", "tool"}) =>
    /\ Cardinality(TagsNamed(signed.result.event, "icon")) = 1
    /\ Cardinality(TagsNamed(signed.result.event, "image")) = 1

----------------------------------------------------------------------------
(* The event loop's clock *)

Tick ==
  /\ now < MaxTime
  /\ now' = now + 1
  /\ UNCHANGED <<setVars, button, collectorVars, publishVars>>

----------------------------------------------------------------------------
(* Event collector: getSubData *)

RelayEvents == [id : {"e1", "e2"}, pubkey : {"pk1", "pk2"}]

\* a mutation: a pending timer is left as it is instead of being replaced
startTimerKeepPending(timer, t, timeout) ==
  IF timer.pending THEN timer ELSE Armed(t + timeout)

\* startTimer(): the pending timer, if any, is cleared and a new one is due
\* timeout after the present time t
startTimer(timer, t, timeout) == Armed(t + timeout)

\* getSubData(ndkInstance, filter, timeout); filterEmpty says whether filter is
\* absent or of length 0
getSubDataCall(filterEmpty, timeout) ==
  /\ cState = "idle"
  /\ cTimeout' = timeout
  /\ IF filterEmpty
     THEN /\ cResolved' = <<[data |-> <<>>, pubkeys |-> <<>>, at |-> now]>>
          /\ cState' = "resolved"
          /\ UNCHANGED <<cSub, cTimer>>
     ELSE /\ cSub' = "open"
          /\ cTimer' = startTimer(cTimer, now, timeout)
          /\ cState' = "collecting"
          /\ UNCHANGED cResolved
  /\ UNCHANGED <<events, pubkeys, delivered, setVars, button, now, publishVars>>

\* sub.on("event", ...): the relay delivers event to the open subscription
CollectorEvent(event) ==
  /\ cSub = "open"
  /\ Len(delivered) < MaxEvents
  /\ delivered' = Append(delivered, [event |-> event, at |-> now])
  /\ pubkeys' = Append(pubkeys, event.pubkey)
  /\ events' = Append(events, event)
  /\ cTimer' = startTimer(cTimer, now, cTimeout)
  /\ UNCHANGED <<cState, cTimeout, cSub, cResolved, setVars, button, now, publishVars>>

\* the quiet-period timer's callback
CollectorTimerFires ==
  /\ cTimer.pending
  /\ now >= cTimer.due
  /\ cTimer' = NoTimer
  /\ cSub' = "stopped"
  /\ cResolved' = Append(cResolved, [data |-> events, pubkeys |-> Dedup(pubkeys), at |-> now])
  /\ cState' = "resolved"
  /\ UNCHANGED <<cTimeout, events, pubkeys, delivered, setVars, button, now, publishVars>>

InitCollector ==
  /\ now = 0 /\ CollectorIdle /\ SetIdle /\ button = NoButtonCall /\ PublishIdle

NextCollector ==
  \/ \E filterEmpty \in BOOLEAN, timeout \in 1..MaxTimeout : getSubDataCall(filterEmpty, timeout)
  \/ \E event \in RelayEvents : CollectorEvent(event)
  \/ CollectorTimerFires
  \/ Tick

SpecCollector == InitCollector /\ [][NextCollector]_vars

\* C1: with a non-empty filter every received event re-arms the quiet-period timer;
\* resolve is called at most once, no earlier than the timeout after the last
\* received event, with the subscription stopped, the received events in arrival
\* order as data and each author key exactly once as pubkeys.
C1_CollectorResolvesOnce ==
  /\ Len(cResolved) <= 1
  /\ (cSub = "open" /\ delivered # <<>>) =>
        cTimer = Armed(delivered[Len(delivered)].at + cTimeout)
  /\ (cSub # "none" /\ Len(cResolved) = 1) =>
        LET r == cResolved[1]
        IN /\ cSub = "stopped" /\ cTimer = NoTimer
           /\ \A i \in 1..Len(delivered) : r.at >= delivered[i].at + cTimeout
           /\ r.data = [i \in 1..Len(delivered) |-> delivered[i].event]
           /\ {r.pubkeys[i] : i \in 1..Len(r.pubkeys)}
                = {delivered[i].event.pubkey : i \in 1..Len(delivered)}
           /\ \A i, j \in 1..Len(r.pubkeys) : r.pubkeys[i] = r.pubkeys[j] => i = j

\* three events at three different times, two of them by one author, then resolved
C1_Witness ==
  /\ Len(cResolved) = 1 /\ Len(delivered) = 3
  /\ delivered[1].at < delivered[2].at /\ delivered[2].at < delivered[3].at
  /\ delivered[1].event.pubkey = delivered[3].event.pubkey
  /\ delivered[1].event.pubkey # delivered[2].event.pubkey
  /\ Len(cResolved[1].pubkeys) = 2

----------------------------------------------------------------------------
(* SW.publish *)

Settled(state, event, reason) == [state |-> state, event |-> event, reason |-> reason]

\* resolve(v) and reject(r) of a promise: only the first call on a pending promise
\* takes effect
Settle(promise, outcome) == IF promise.state = "pending" THEN outcome ELSE promise

\* a mutation: the catch block passes the exception on
catchRejectRaw(err) == "raw: " \o err

\* the catch block of the executor: reject with the fixed message
catchReject(err) == MsgHint

\* a mutation: the timer armed with no delay
publishTimerDueAtOnce(t, timeout) == Armed(t)

\* setTimeout(..., [timeout]): the one-element array converts to the number timeout
publishTimerDue(t, timeout) == Armed(t + timeout)

ThrowPoints == {"none", "NDKEvent", "NDKRelay", "NDKRelaySet", "publish", "subscribe"}

\* sw.publish(components, title, identifier, timeout) up to the await: the two checks
\* and the arguments of getNostrEvent
publishCall(isSet, title, identifier, generated, timeout) ==
  /\ pPc = "idle"
  /\ isSet => set.constructed
  /\ pTimeout' = timeout
  /\ IF ~isTitleValid(title)
     THEN /\ pPromise' = Settle(pPromise, Settled("rejected", NoEvent, MsgTitle))
          /\ pPc' = "done"
          /\ UNCHANGED <<pEvent, pLog>>
     ELSE IF ~isSet
     THEN /\ pPromise' = Settle(pPromise, Settled("rejected", NoEvent, MsgNotSet))
          /\ pPc' = "done"
          /\ UNCHANGED <<pEvent, pLog>>
     ELSE /\ pEvent' = getNostrEvent(ContentOf(title), getProps(Deref(set.components)),
                                     identifier, swType, generated)
          /\ pPc' = "signing"
          /\ pLog' = <<[what |-> "validated", at |-> now]>>
          /\ UNCHANGED pPromise
  /\ UNCHANGED <<pTimer, pSub, setVars, button, now, collectorVars>>

\* the await of getNostrEvent settles and, when it fulfils, the executor of the
\* returned promise runs; signs says whether ndkEvent.sign() returns, throwAt which
\* call of the executor throws
publishContinues(signs, throwAt) ==
  /\ pPc = "signing"
  /\ IF ~signs
     THEN /\ pPromise' = Settle(pPromise, Settled("rejected", NoEvent, MsgSignFailed))
          /\ pLog' = Append(pLog, [what |-> "sign threw", at |-> now])
          /\ pPc' = "done"
          /\ UNCHANGED <<pTimer, pSub>>
     ELSE IF throwAt \in {"NDKEvent", "NDKRelay", "NDKRelaySet", "publish"}
     THEN /\ pPromise' = Settle(pPromise, Settled("rejected", NoEvent, catchReject(throwAt)))
          /\ pLog' = Append(pLog, [what |-> "executor threw", at |-> now])
          /\ pPc' = "done"
          /\ UNCHANGED <<pTimer, pSub>>
     ELSE IF throwAt = "subscribe"
     THEN /\ pTimer' = publishTimerDue(now, pTimeout)
          /\ pPromise' = Settle(pPromise, Settled("rejected", NoEvent, catchReject(throwAt)))
          /\ pLog' = Append(pLog, [what |-> "executor threw", at |-> now])
          /\ pPc' = "done"
          /\ UNCHANGED pSub
     ELSE /\ pTimer' = publishTimerDue(now, pTimeout)
          /\ pSub' = "open"
          /\ pLog' = Append(pLog, [what |-> "armed", at |-> now])
          /\ pPc' = "waiting"
          /\ UNCHANGED pPromise
  /\ UNCHANGED <<pEvent, pTimeout, setVars, button, now, collectorVars>>

\* subscription.on("event", ...): an event with the signed event's id is observed
publishEventObserved ==
  /\ pSub = "open"
  /\ pTimer' = NoTimer
  /\ pSub' = "stopped"
  /\ pPromise' = Settle(pPromise, Settled("resolved", pEvent, ""))
  /\ pLog' = Append(pLog, [what |-> "event", at |-> now])
  /\ UNCHANGED <<pPc, pEvent, pTimeout, setVars, button, now, collectorVars>>

\* the callback of the publish timer
publishTimerFires ==
  /\ pTimer.pending
  /\ now >= pTimer.due
  /\ pPromise' = Settle(pPromise, Settled("rejected", NoEvent, MsgHint))
  /\ pTimer' = NoTimer
  /\ pLog' = Append(pLog, [what |-> "timeout", at |-> now])
  /\ UNCHANGED <<pPc, pSub, pEvent, pTimeout, setVars, button, now, collectorVars>>

InitPublish ==
  /\ now = 0 /\ PublishIdle /\ CollectorIdle /\ button = NoButtonCall
  /\ components = <<NewImage(S_https).inst, NewButton(Num(2), S_label, T_redirect, S_https).inst>>
  /\ set = [constructed |-> TRUE, components |-> SetComponentsField("components")]
  /\ swType \in WidgetTypes
  /\ checkComps = NoCheck /\ signed = NoSign

NextPublish ==
  \/ \E isSet \in BOOLEAN, title \in Titles, identifier \in Identifiers,
        generated \in Generated, timeout \in 1..MaxTimeout :
       publishCall(isSet, title, identifier, generated, timeout)
  \/ \E signs \in BOOLEAN, throwAt \in ThrowPoints : publishContinues(signs, throwAt)
  \/ publishEventObserved
  \/ publishTimerFires
  \/ Tick

SpecPublish == InitPublish /\ [][NextPublish]_vars

LogIndexes(what) == {i \in 1..Len(pLog) : pLog[i].what = what}
Happened(what) == LogIndexes(what) # {}
FirstOf(what) == CHOOSE i \in LogIndexes(what) : \A j \in LogIndexes(what) : i <= j
Before(a, b) == Happened(a) /\ (Happened(b) => FirstOf(a) < FirstOf(b))

\* C2: once the timer is armed and the subscription open, the first of the confirming
\* event and the timeout decides: the event resolves the promise with the signed event
\* and its address, the timeout (never before timeoutMs has elapsed) rejects it with
\* the configuration hint, and what happens later changes nothing.
C2_PublishRace ==
  Happened("armed") =>
    /\ (~Happened("event") /\ ~Happened("timeout")) => pPromise.state = "pending"
    /\ Before("event", "timeout") => pPromise = Settled("resolved", pEvent, "")
    /\ Before("timeout", "event") => pPromise = Settled("rejected", NoEvent, MsgHint)
    /\ \A i \in LogIndexes("timeout") : pLog[i].at >= pLog[FirstOf("armed")].at + pTimeout

\* the timeout came first and the confirming event after it
C2_Witness ==
  /\ Happened("timeout") /\ Happened("event")
  /\ FirstOf("timeout") < FirstOf("event")
  /\ pPromise.state = "rejected"

\* C9 as claimed: after the two checks, any exception of the publish path, signing
\* included, rejects the promise with the configuration hint.
C9_AllErrorsNormalized ==
  (Happened("sign threw") \/ Happened("executor threw")) =>
     pPromise = Settled("rejected", NoEvent, MsgHint)

\* C9 amended: an exception thrown by the executor (NDKEvent, relay set, publish,
\* subscribe) rejects the promise with the configuration hint; a failed signing
\* rejects it with the signer's own error; a resolved promise holds the whole signed
\* event and its address.
C9_ExecutorErrorsNormalized ==
  /\ Happened("executor threw") => pPromise = Settled("rejected", NoEvent, MsgHint)
  /\ Happened("sign threw") => pPromise = Settled("rejected", NoEvent, MsgSignFailed)
  /\ pPromise.state = "resolved" => (pPromise.event = pEvent /\ pEvent # NoEvent)
  /\ pPromise.state = "rejected" => pPromise.event = NoEvent

\* subscribe threw after the timer was armed, and the timer fired later
C9_Witness ==
  /\ Happened("executor threw") /\ Happened("timeout")
  /\ pPromise = Settled("rejected", NoEvent, MsgHint)

\* C11: whenever the promise of a publish whose timer was armed and whose subscription
\* was opened has settled, by the confirming event or by the timeout, the
\* subscription has been stopped and the timer is no longer pending.
C11_SettledPublishIsClosed ==
  (Happened("armed") /\ pPromise.state # "pending") =>
     (pSub = "stopped" /\ ~pTimer.pending)

====
